---- MODULE Spec2Model ----
(***************************************************************************)
(* GameController (src/src/game.py): the online admission controller of    *)
(* the Berghain challenge.  start() fetches the constraints and the        *)
(* attribute statistics, run_game() pulls one candidate per round trip,    *)
(* decides it with make_decision() and applies update_state().             *)
(*                                                                         *)
(* Numbers.  Marginals are floats in the source; here a marginal is the    *)
(* exact fraction [num, den], and a product R * p is the fraction          *)
(* [R * num, den].  A score is a sum of need / (R + 1e-9); all terms share *)
(* the denominator, so a score is kept as [num |-> sum of needs, R |-> R]. *)
(* A dict is a function on its key set; a dict that is iterated in order   *)
(* (a candidate's attributes, the constraint list) is a sequence.          *)
(* An uncaught KeyError ends the call: pc = "crashed".                      *)
(*                                                                         *)
(* Floats.  A float is the dyadic fraction [num, den], den a power of 2,   *)
(* in lowest terms.  Each arithmetic operation of _initialize_probabilities*)
(* rounds its exact result to FloatBits significant bits, to nearest, ties *)
(* to even, as IEEE 754 does with 53 bits.  The statistics of the session  *)
(* specification (0, 1/2, 1) make every operation exact.                   *)
(***************************************************************************)
EXTENDS Integers, Sequences, FiniteSets, TLC

VARIABLES
    pc,                 \* position of the caller: new, start_failed, started,
                        \* wait_first, loop, wait, done; crashed when
                        \* make_decision raised KeyError, io_raised when
                        \* requests.get raised
    N,                  \* self.N, venue capacity
    R,                  \* self.R, remaining slots
    rejects,            \* self.rejects
    accepted_counts,    \* self.accepted_counts
    remaining_required, \* self.remaining_required
    p_a,                \* self.p_a, marginal probabilities
    P11,                \* self.P11, pairwise joint probabilities
    constraints,        \* self.constraints
    attribute_statistics, \* self.attribute_statistics
    person_index,       \* run_game's local person_index
    response,           \* run_game's local response (None or a record)
    request,            \* the last request sent to decide-and-next
    inflight,           \* number of requests sent and not yet answered
    last,               \* history: the last candidate decided, what it carried,
                        \* the decision and whether it was forced
    stdout,             \* the lines printed, but for the line per candidate
    returned,           \* what run_game returned
    n_requests,         \* history: requests sent by run_game
    n_decided,          \* history: candidates passed to make_decision and update_state
    scenario,           \* history: how much of the worked scenario has been replayed
    accepted_carrying   \* history: per attribute, the accepted candidates that carried it

vars == <<pc, N, R, rejects, accepted_counts, remaining_required, p_a, P11, constraints,
          attribute_statistics, person_index, response, request, inflight, last, stdout,
          returned, n_requests, n_decided, scenario, accepted_carrying>>

------------------------------------------------------------------------------
(* Bounds *)

MaxN == 3          \* venue capacities 1..MaxN stand for self.N = 1000
MAX_REJECTS == 3   \* stands for self.MAX_REJECTS = 20000
MaxMinCount == 2   \* minCount of a constraint ranges over 1..MaxMinCount
FloatBits == 3     \* significant bits of a float, standing for the 53 of a double

Universe == {"A", "B"}

None == [none |-> TRUE]

\* relativeFrequencies values the service may send
Marginals == {[num |-> 0, den |-> 1], [num |-> 1, den |-> 2], [num |-> 1, den |-> 1]}

\* relativeFrequencies payloads: a dict on a non-empty set of attributes
Frequencies == UNION {[S -> Marginals] : S \in (SUBSET Universe) \ {{}}}

\* correlation values the service may send
Rhos == {[num |-> 0, den |-> 1]}

\* a row correlations[a]: a dict on some of the other attributes of attrs
Rows(a, rhos, attrs) == UNION {[S -> rhos] : S \in SUBSET (attrs \ {a})}

\* correlations payloads for the attributes attrs, entries possibly missing
CorrelationsOf(rhos, attrs) ==
    {c \in [attrs -> UNION {Rows(a, rhos, attrs) : a \in attrs}] :
        \A a \in attrs : a \notin DOMAIN c[a]}

\* statistics that make the arithmetic round
WideMarginals == Marginals \cup {[num |-> 1, den |-> 4], [num |-> 3, den |-> 8],
                                 [num |-> 3, den |-> 4]}

WideFrequencies == UNION {[S -> WideMarginals] : S \in (SUBSET Universe) \ {{}}}

WideRhos == Rhos \cup {[num |-> 1, den |-> 1], [num |-> 1, den |-> 2],
                       [num |-> -1, den |-> 2]}

Constraint == [attribute : Universe, minCount : 1..MaxMinCount]

\* constraint lists: at most one constraint per attribute
ConstraintLists ==
    {<<>>} \cup {<<c>> : c \in Constraint}
           \cup {<<c, d>> : c \in {x \in Constraint : x.attribute = "A"},
                            d \in {x \in Constraint : x.attribute = "B"}}

Entry == [attr : Universe, has : BOOLEAN]

\* a candidate's attributes dict, in iteration order
PersonAttributes ==
    {<<e>> : e \in Entry} \cup {s \in Entry \X Entry : s[1].attr # s[2].attr}

------------------------------------------------------------------------------
(* Arithmetic on fractions *)

\* x < n for the fraction x and the integer n
Less(x, n) == x.num < n * x.den

\* q > 0 for q = q.num / (q.R + 1e-9); q.R is an integer, so the
\* denominator is positive exactly when q.R >= 0
Positive(q) == \/ q.num > 0 /\ q.R >= 0
               \/ q.num < 0 /\ q.R < 0

max(a, b) == IF a >= b THEN a ELSE b

Abs(n) == IF n < 0 THEN 0 - n ELSE n

RECURSIVE Pow2(_)
Pow2(k) == IF k <= 0 THEN 1 ELSE 2 * Pow2(k - 1)

\* the number of bits of n >= 0
RECURSIVE BitLen(_)
BitLen(n) == IF n = 0 THEN 0 ELSE 1 + BitLen(n \div 2)

\* the fraction in lowest terms
RECURSIVE Canon(_)
Canon(x) ==
    IF x.num = 0 THEN [num |-> 0, den |-> 1]
    ELSE IF x.den > 1 /\ x.num % 2 = 0
         THEN Canon([num |-> x.num \div 2, den |-> x.den \div 2])
         ELSE x

\* the float nearest to the dyadic fraction x, ties to even
Round(x) ==
    LET a == Abs(x.num)
        k == BitLen(a) - FloatBits
    IN IF k <= 0 THEN Canon(x)
       ELSE LET q0 == a \div Pow2(k)
                rem == a % Pow2(k)
                half == Pow2(k - 1)
                q == IF rem > half \/ (rem = half /\ q0 % 2 = 1) THEN q0 + 1 ELSE q0
            IN Canon([num |-> (IF x.num < 0 THEN 0 - q ELSE q) * Pow2(k), den |-> x.den])

\* x * y, x + y and 1 - x on floats
Mul(x, y) == Round([num |-> x.num * y.num, den |-> x.den * y.den])

Add(x, y) ==
    LET d == max(x.den, y.den)
    IN Round([num |-> x.num * (d \div x.den) + y.num * (d \div y.den), den |-> d])

OneMinus(x) == Add([num |-> 1, den |-> 1], [num |-> 0 - x.num, den |-> x.den])

\* the integer square root, and the square root of a power of 4
ISqrt(n) == CHOOSE r \in 0..Pow2(FloatBits + 1) : r * r <= n /\ (r + 1) * (r + 1) > n

RECURSIVE SqrtPow4(_)
SqrtPow4(d) == IF d <= 1 THEN 1 ELSE 2 * SqrtPow4(d \div 4)

IsPow4(d) == SqrtPow4(d) * SqrtPow4(d) = d

\* x scaled to num / den with den a power of 4 and num of 2 * FloatBits + 1
\* or 2 * FloatBits + 2 bits
RECURSIVE Scaled(_)
Scaled(x) ==
    IF ~IsPow4(x.den) THEN Scaled([num |-> 2 * x.num, den |-> 2 * x.den])
    ELSE IF BitLen(x.num) < 2 * FloatBits + 1
         THEN Scaled([num |-> 4 * x.num, den |-> 4 * x.den])
         ELSE x

\* math.sqrt(x) for a float x >= 0: the float nearest to the square root
Sqrt(x) ==
    IF x.num = 0 THEN x
    ELSE LET y == Scaled(x)
             r == ISqrt(y.num)
             q0 == r \div 2
             q == IF r % 2 = 1 /\ (r * r # y.num \/ q0 % 2 = 1) THEN q0 + 1 ELSE q0
         IN Canon([num |-> 2 * q, den |-> SqrtPow4(y.den)])

------------------------------------------------------------------------------
(* start() *)

\* the keys of a dict in iteration order
Keys(d) == SelectSeq(<<"A", "B">>, LAMBDA a : a \in DOMAIN d)

\* _initialize_probabilities, line 75: P11[a][b] for a # b
joint11(rho, p_a_val, p_b_val) ==
    Add(Mul(rho, Sqrt(Mul(Mul(Mul(p_a_val, OneMinus(p_a_val)), p_b_val), OneMinus(p_b_val)))),
        Mul(p_a_val, p_b_val))

\* _initialize_probabilities: the inner loop over b from attrs[j] on, filling row
RECURSIVE row_from(_, _, _, _, _)
row_from(freqs, correlations, a, j, row) ==
    LET attrs == Keys(freqs)
    IN IF j > Len(attrs) THEN [raised |-> FALSE, row |-> row]
       ELSE LET b == attrs[j]
            IN IF a # b /\ (a \notin DOMAIN correlations \/ b \notin DOMAIN correlations[a])
               THEN [raised |-> TRUE, row |-> row]
               ELSE LET v == IF a = b THEN freqs[a]
                             ELSE joint11(correlations[a][b], freqs[a], freqs[b])
                    IN row_from(freqs, correlations, a, j + 1,
                                [c \in DOMAIN row \cup {b} |-> IF c = b THEN v ELSE row[c]])

\* _initialize_probabilities: the outer loop over a from attrs[i] on, filling table
RECURSIVE table_from(_, _, _, _)
table_from(freqs, correlations, i, table) ==
    LET attrs == Keys(freqs)
    IN IF i > Len(attrs) THEN [raised |-> FALSE, P11 |-> table]
       ELSE LET a == attrs[i]
                r == row_from(freqs, correlations, a, 1, << >>)
                t == [c \in DOMAIN table \cup {a} |-> IF c = a THEN r.row ELSE table[c]]
            IN IF r.raised THEN [raised |-> TRUE, P11 |-> t]
               ELSE table_from(freqs, correlations, i + 1, t)

\* _initialize_probabilities: the table built, and whether a lookup of
\* correlations raised KeyError before it was complete
initialize_probabilities(freqs, correlations) == table_from(freqs, correlations, 1, << >>)

\* _initialize_game_state: the loop over self.constraints, later entries win
RECURSIVE required_from(_, _)
required_from(cs, i) ==
    IF i = 0 THEN << >>
    ELSE LET before == required_from(cs, i - 1)
             attr == cs[i].attribute
         IN [a \in DOMAIN before \cup {attr} |->
                IF a = attr THEN cs[i].minCount ELSE before[a]]

initialize_game_state(freqs, cs) ==
    [accepted_counts |-> [a \in DOMAIN freqs |-> 0],
     remaining_required |-> required_from(cs, Len(cs))]

------------------------------------------------------------------------------
(* The decision engine *)

\* the expected supply computed from the slots already taken
ExpectedFutureFromTaken(r) ==
    [a \in DOMAIN p_a |-> [num |-> (N - r) * p_a[a].num, den |-> p_a[a].den]]

\* _compute_expected_future_supply with r slots remaining
ExpectedFutureAt(r) == [a \in DOMAIN p_a |-> [num |-> r * p_a[a].num, den |-> p_a[a].den]]

\* the expected supply computed as if the candidate's slot were already taken
compute_expected_future_supply_after_update == ExpectedFutureAt(R - 1)

\* _compute_expected_future_supply
compute_expected_future_supply == ExpectedFutureAt(R)

remaining_req(attr) == max(0, remaining_required[attr] - accepted_counts[attr])

\* _compute_alphas reads remaining_required[a] and accepted_counts[a] for
\* every key a of p_a: a missing key raises KeyError
alphas_raises ==
    \E a \in DOMAIN p_a : a \notin DOMAIN remaining_required \/ a \notin DOMAIN accepted_counts

\* _compute_alphas, when it does not raise
compute_alphas == [a \in DOMAIN p_a |-> [num |-> remaining_req(a), R |-> R]]

\* _should_force_accept: the loop from entry i on; "True", "False" or "KeyError"
RECURSIVE force_from(_, _, _)
force_from(person_attributes, expected_future, i) ==
    IF i > Len(person_attributes) THEN "False"
    ELSE LET attr == person_attributes[i].attr
         IN IF ~person_attributes[i].has
            THEN force_from(person_attributes, expected_future, i + 1)
            ELSE IF \/ attr \notin DOMAIN remaining_required
                    \/ attr \notin DOMAIN accepted_counts
                    \/ attr \notin DOMAIN expected_future
                 THEN "KeyError"
                 ELSE IF Less(expected_future[attr], remaining_req(attr))
                      THEN "True"
                      ELSE force_from(person_attributes, expected_future, i + 1)

\* the forced-accept check comparing with <= instead of <
RECURSIVE force_from_le(_, _, _)
force_from_le(person_attributes, expected_future, i) ==
    IF i > Len(person_attributes) THEN "False"
    ELSE LET attr == person_attributes[i].attr
         IN IF ~person_attributes[i].has
            THEN force_from_le(person_attributes, expected_future, i + 1)
            ELSE IF \/ attr \notin DOMAIN remaining_required
                    \/ attr \notin DOMAIN accepted_counts
                    \/ attr \notin DOMAIN expected_future
                 THEN "KeyError"
                 ELSE IF expected_future[attr].num <= remaining_req(attr) * expected_future[attr].den
                      THEN "True"
                      ELSE force_from_le(person_attributes, expected_future, i + 1)

should_force_accept_le(person_attributes, expected_future) ==
    force_from_le(person_attributes, expected_future, 1)

should_force_accept(person_attributes, expected_future) ==
    force_from(person_attributes, expected_future, 1)

\* _compute_score: the sum from entry i on, given the alphas
RECURSIVE score_from(_, _, _)
score_from(person_attributes, alphas, i) ==
    IF i > Len(person_attributes) THEN 0
    ELSE LET e == person_attributes[i]
         IN (IF e.has /\ e.attr \in DOMAIN alphas THEN alphas[e.attr].num ELSE 0)
            + score_from(person_attributes, alphas, i + 1)

\* _compute_score, when _compute_alphas does not raise
compute_score(person_attributes) ==
    [num |-> score_from(person_attributes, compute_alphas, 1), R |-> R]

\* the acceptance rule without the score test
accept_rule_capacity_only(score) == R > 0

\* the acceptance rule of make_decision, line 138
accept_rule(score) == Positive(score) /\ R > 0

KeyError == [raised |-> TRUE, accept |-> FALSE, forced |-> FALSE]

\* make_decision: whether it raised, what it returned, and whether the
\* forced-accept check returned it
make_decision(person_data) ==
    LET person_attributes == person_data.attributes
        expected_future == compute_expected_future_supply
        forced == should_force_accept(person_attributes, expected_future)
    IN IF forced = "KeyError" THEN KeyError
       ELSE IF forced = "True" THEN [raised |-> FALSE, accept |-> TRUE, forced |-> TRUE]
       ELSE IF alphas_raises THEN KeyError
       ELSE [raised |-> FALSE,
             accept |-> accept_rule(compute_score(person_attributes)),
             forced |-> FALSE]

Carried(person_attributes) ==
    {person_attributes[i].attr : i \in {j \in DOMAIN person_attributes : person_attributes[j].has}}

\* update_state taking a slot for a rejected candidate too
update_state_slot_on_reject(accepted, person_attributes) ==
    [R |-> R - 1,
     accepted_counts |-> accepted_counts,
     rejects |-> IF accepted THEN rejects ELSE rejects + 1]

\* update_state counting the attributes of a rejected candidate too
update_state_counting_rejected(accepted, person_attributes) ==
    [R |-> IF accepted THEN R - 1 ELSE R,
     accepted_counts |->
         [a \in DOMAIN accepted_counts |->
             IF a \in Carried(person_attributes)
             THEN accepted_counts[a] + 1 ELSE accepted_counts[a]],
     rejects |-> IF accepted THEN rejects ELSE rejects + 1]

\* update_state not counting a reject
update_state_forgetting_rejects(accepted, person_attributes) ==
    IF accepted
    THEN [R |-> R - 1,
          accepted_counts |->
              [a \in DOMAIN accepted_counts |->
                  IF a \in Carried(person_attributes)
                  THEN accepted_counts[a] + 1 ELSE accepted_counts[a]],
          rejects |-> rejects]
    ELSE [R |-> R, accepted_counts |-> accepted_counts, rejects |-> rejects]

\* update_state counting an accepted candidate under every attribute
update_state_counting_all(accepted, person_attributes) ==
    IF accepted
    THEN [R |-> R - 1,
          accepted_counts |-> [a \in DOMAIN accepted_counts |-> accepted_counts[a] + 1],
          rejects |-> rejects]
    ELSE [R |-> R, accepted_counts |-> accepted_counts, rejects |-> rejects + 1]

\* update_state: the new R, accepted_counts and rejects
update_state(accepted, person_attributes) ==
    IF accepted
    THEN [R |-> R - 1,
          accepted_counts |->
              [a \in DOMAIN accepted_counts |->
                  IF a \in Carried(person_attributes)
                  THEN accepted_counts[a] + 1 ELSE accepted_counts[a]],
          rejects |-> rejects]
    ELSE [R |-> R, accepted_counts |-> accepted_counts, rejects |-> rejects + 1]

------------------------------------------------------------------------------
(* The external service *)

IsNone(r) == "none" \in DOMAIN r

Running(r) == ~IsNone(r) /\ r.status = "running"

\* the 200 answers to a decide-and-next request that came after `sent` requests
\* carrying a decision: the next candidate is numbered by the service
ServiceResponses(sent) ==
    {[status |-> "running", nextPerson |-> [personIndex |-> sent, attributes |-> pa]] :
        pa \in PersonAttributes}
    \cup {[status |-> "completed"], [status |-> "completed", rejectedCount |-> sent]}
    \cup {[status |-> "failed"], [status |-> "failed", reason |-> "constraints not met"]}

\* the ways a round trip fails that get_next_person_and_decide handles: both
\* make it return None.  An exception of requests.get itself (the service
\* is unreachable) is not caught and ends run_game: pc = "io_raised".
IOFailures == {"Request failed with status", "Failed to parse response as JSON"}

------------------------------------------------------------------------------
(* State *)

Init ==
    /\ pc = "new"
    /\ N \in 1..MaxN
    /\ R = N
    /\ rejects = 0
    /\ accepted_counts = << >>
    /\ remaining_required = << >>
    /\ p_a = << >>
    /\ P11 = << >>
    /\ constraints = << >>
    /\ attribute_statistics = << >>
    /\ person_index = 0
    /\ response = None
    /\ request = None
    /\ inflight = 0
    /\ last = None
    /\ stdout = << >>
    /\ returned = None
    /\ n_requests = 0
    /\ n_decided = 0
    /\ scenario = -1
    /\ accepted_carrying = [a \in Universe |-> 0]

\* the worked scenario: capacity 3, one attribute A with marginal 0.5 and
\* required[A] = 2, candidates {A: true}, {A: false}, {A: false}, {A: true}
ScenarioCandidates ==
    << <<[attr |-> "A", has |-> TRUE]>>, <<[attr |-> "A", has |-> FALSE]>>,
       <<[attr |-> "A", has |-> FALSE]>>, <<[attr |-> "A", has |-> TRUE]>> >>

ScenarioSetup(n, freqs, cs) ==
    /\ n = 3
    /\ DOMAIN freqs = {"A"}
    /\ freqs["A"] = [num |-> 1, den |-> 2]
    /\ cs = <<[attribute |-> "A", minCount |-> 2]>>

\* start(): the new-game round trip, then the two initializers, for the
\* payloads of the given sets.  A KeyError of _initialize_probabilities ends
\* start before _initialize_game_state: pc = "start_raised".
StartWith(FrequencySet, RhoSet) ==
    /\ pc = "new"
    /\ \/ /\ \E line \in {"failed to start game", "Failed to parse response as JSON"} :
               stdout' = Append(stdout, [line |-> line])
          /\ pc' = "start_failed"
          /\ UNCHANGED <<N, R, rejects, accepted_counts, remaining_required, p_a, P11,
                         constraints, attribute_statistics, person_index, response, request, inflight,
                         last, returned, n_requests, n_decided, scenario,
                         accepted_carrying>>
       \/ \E freqs \in FrequencySet, cs \in ConstraintLists :
          \E correlations \in CorrelationsOf(RhoSet, DOMAIN freqs) :
            LET pr == initialize_probabilities(freqs, correlations)
                st == initialize_game_state(freqs, cs)
            IN /\ constraints' = cs
               /\ attribute_statistics' = [relativeFrequencies |-> freqs,
                                           correlations |-> correlations]
               /\ p_a' = freqs
               /\ P11' = pr.P11
               /\ stdout' = Append(stdout, [line |-> "Game started"])
               /\ IF pr.raised
                  THEN /\ pc' = "start_raised"
                       /\ UNCHANGED <<accepted_counts, remaining_required, scenario>>
                  ELSE /\ accepted_counts' = st.accepted_counts
                       /\ remaining_required' = st.remaining_required
                       /\ scenario' = IF ScenarioSetup(N, freqs, cs) THEN 0 ELSE -1
                       /\ pc' = "started"
               /\ UNCHANGED <<N, R, rejects, person_index, response, request,
                              inflight, last, returned, n_requests, n_decided,
                              accepted_carrying>>

Start == StartWith(Frequencies, Rhos)

\* start() on statistics that make the arithmetic round
StartWide == StartWith(WideFrequencies, WideRhos)

\* the request without the accept parameter
decide_and_next_no_accept(index, accept) ==
    [personIndex |-> index, accept |-> "absent"]

\* get_next_person_and_decide: the request it sends
decide_and_next(index, accept) ==
    [personIndex |-> index,
     accept |-> IF accept = "None" THEN "absent"
                ELSE IF accept = "True" THEN "true" ELSE "false"]

\* run_game, lines 170-173: the first request, with no decision
RunFirst ==
    /\ pc = "started"
    /\ person_index' = 0
    /\ request' = decide_and_next(0, "None")
    /\ inflight' = inflight + 1
    /\ n_requests' = n_requests + 1
    /\ pc' = "wait_first"
    /\ UNCHANGED <<N, R, rejects, accepted_counts, remaining_required, p_a, P11,
                   constraints, attribute_statistics, response, last, stdout, returned, n_decided, scenario,
                   accepted_carrying>>

\* run_game, lines 203-210: what is printed when the game has ended
game_ended(resp) ==
    IF IsNone(resp) THEN << >>
    ELSE <<[line |-> "Game ended with status", status |-> resp.status]>>
         \o (IF resp.status = "completed"
             THEN <<[line |-> "Successfully filled venue! Total rejections",
                     rejections |-> IF "rejectedCount" \in DOMAIN resp
                                    THEN resp.rejectedCount ELSE rejects]>>
             ELSE IF resp.status = "failed"
             THEN <<[line |-> "Game failed",
                     reason |-> IF "reason" \in DOMAIN resp
                                THEN resp.reason ELSE "Unknown reason"]>>
             ELSE << >>)

\* run_game, lines 173-176: the first answer
ReceiveFirst ==
    /\ pc = "wait_first"
    /\ inflight' = inflight - 1
    /\ \/ \E io \in IOFailures :
            /\ response' = None
            /\ stdout' = stdout \o <<[line |-> io],
                                     [line |-> "Failed to start game properly"]>>
            /\ returned' = None
            /\ pc' = "done"
       \/ \E resp \in ServiceResponses(0) :
            /\ response' = resp
            /\ IF resp.status # "running"
               THEN /\ stdout' = Append(stdout, [line |-> "Failed to start game properly",
                                                 status |-> resp.status])
                    /\ returned' = resp
                    /\ pc' = "done"
               ELSE /\ pc' = "loop"
                    /\ UNCHANGED <<stdout, returned>>
       \/ /\ pc' = "io_raised"
          /\ UNCHANGED <<response, stdout, returned>>
    /\ UNCHANGED <<N, R, rejects, accepted_counts, remaining_required, p_a, P11, constraints, attribute_statistics,
                   person_index, request, last, n_requests, n_decided, scenario,
                   accepted_carrying>>

\* the loop condition without the capacity test
loop_guard_ignoring_capacity ==
    /\ ~IsNone(response)
    /\ response.status = "running"
    /\ rejects < MAX_REJECTS

\* the loop condition without the reject budget
loop_guard_ignoring_rejects ==
    /\ ~IsNone(response)
    /\ response.status = "running"
    /\ R > 0

\* run_game, line 178: the loop condition
loop_guard ==
    /\ ~IsNone(response)
    /\ response.status = "running"
    /\ R > 0
    /\ rejects < MAX_REJECTS

\* run_game, lines 179-190: decide the current candidate, update the state,
\* send the decision with the request for the next candidate
Decide ==
    /\ pc = "loop"
    /\ loop_guard
    /\ LET person_data == response.nextPerson
           d == make_decision(person_data)
       IN IF d.raised
          THEN /\ pc' = "crashed"
               /\ person_index' = person_data.personIndex
               /\ UNCHANGED <<R, rejects, accepted_counts, request, inflight, last,
                              n_requests, n_decided, scenario, accepted_carrying>>
          ELSE LET st == update_state(d.accept, person_data.attributes)
               IN /\ person_index' = person_data.personIndex
                  /\ R' = st.R
                  /\ accepted_counts' = st.accepted_counts
                  /\ rejects' = st.rejects
                  /\ last' = [personIndex |-> person_data.personIndex,
                              carried |-> Carried(person_data.attributes),
                              accept |-> d.accept, forced |-> d.forced]
                  /\ n_decided' = n_decided + 1
                  /\ accepted_carrying' =
                        [a \in Universe |->
                            IF d.accept /\ a \in Carried(person_data.attributes)
                            THEN accepted_carrying[a] + 1 ELSE accepted_carrying[a]]
                  /\ scenario' = IF /\ scenario \in 0..3
                                    /\ person_data.attributes = ScenarioCandidates[scenario + 1]
                                 THEN scenario + 1 ELSE -1
                  /\ request' = decide_and_next(person_data.personIndex,
                                                IF d.accept THEN "True" ELSE "False")
                  /\ inflight' = inflight + 1
                  /\ n_requests' = n_requests + 1
                  /\ pc' = "wait"
    /\ UNCHANGED <<N, remaining_required, p_a, P11, constraints, attribute_statistics, response, stdout, returned>>

ProgressEvery == 100

\* run_game, lines 190-200: the answer to a decision
Receive ==
    /\ pc = "wait"
    /\ inflight' = inflight - 1
    /\ \/ \E io \in IOFailures :
            /\ response' = None
            /\ stdout' = stdout \o <<[line |-> io], [line |-> "No response received"]>>
                                \o game_ended(None)
            /\ returned' = None
            /\ pc' = "done"
       \/ \E resp \in ServiceResponses(n_decided) :
            /\ response' = resp
            /\ stdout' = IF person_index % ProgressEvery = 0
                         THEN Append(stdout, [line |-> "Progress",
                                              accepted |-> N - R,
                                              rejected |-> rejects,
                                              accepted_counts |-> accepted_counts,
                                              remaining_required |-> remaining_required])
                         ELSE stdout
            /\ pc' = "loop"
            /\ UNCHANGED returned
       \/ /\ pc' = "io_raised"
          /\ UNCHANGED <<response, stdout, returned>>
    /\ UNCHANGED <<N, R, rejects, accepted_counts, remaining_required, p_a, P11, constraints, attribute_statistics,
                   person_index, request, last, n_requests, n_decided, scenario,
                   accepted_carrying>>

\* run_game, lines 178 and 202-210: the loop condition fails
EndGame ==
    /\ pc = "loop"
    /\ ~loop_guard
    /\ stdout' = stdout \o game_ended(response)
    /\ returned' = response
    /\ pc' = "done"
    /\ UNCHANGED <<N, R, rejects, accepted_counts, remaining_required, p_a, P11, constraints, attribute_statistics,
                   person_index, response, request, inflight, last, n_requests,
                   n_decided, scenario, accepted_carrying>>

Next == Start \/ RunFirst \/ ReceiveFirst \/ Decide \/ Receive \/ EndGame

Spec == Init /\ [][Next]_vars

\* every step that can be taken is taken: each call returns or raises
FairSpec == Spec /\ WF_vars(Next)

\* the probability model alone, built from statistics that make the
\* arithmetic round
NextProb == StartWide

SpecProb == Init /\ [][NextProb]_vars

------------------------------------------------------------------------------
(* Properties *)

\* the candidate the loop is about to decide
Candidate == response.nextPerson.attributes

\* a Decide step that ran make_decision and update_state to the end
Processed == n_decided' = n_decided + 1

\* need[a] = max(0, required[a] - accepted_count[a]); 0 for an attribute
\* with no requirement or no counter
Need(a) ==
    IF a \in DOMAIN remaining_required /\ a \in DOMAIN accepted_counts
    THEN max(0, remaining_required[a] - accepted_counts[a])
    ELSE 0

\* C1: capacity_remaining is never negative, and once it is 0 no candidate
\* is passed to make_decision or update_state, whatever the service answers.
C1_CapacityNeverNegative ==
    /\ [](R >= 0)
    /\ [][R = 0 => /\ n_decided' = n_decided
                   /\ pc' # "crashed"
                   /\ UNCHANGED <<R, rejects, accepted_counts>>]_vars

\* the venue was filled while the service was still sending candidates
C1_Witness == pc = "done" /\ R = 0 /\ n_decided > 0 /\ Running(response)

\* C2: a processed candidate either takes one slot and leaves reject_count
\* alone, or adds one reject and leaves capacity_remaining alone; the two
\* counters change in no other step.
C2_ExactlyOneCounter ==
    [][/\ Processed => \/ R' = R - 1 /\ rejects' = rejects
                       \/ R' = R /\ rejects' = rejects + 1
       /\ (R' # R \/ rejects' # rejects) => Processed]_vars

\* both kinds of step have happened
C2_Witness == n_decided >= 2 /\ R < N /\ rejects >= 1

\* C3: when reject_count reaches MAX_REJECTS with slots still open and the
\* service still answering "running", run_game ends with status "failed".
C3_RejectBudgetFails ==
    (pc = "done" /\ rejects = MAX_REJECTS /\ R > 0 /\ Running(response))
        => /\ ~IsNone(returned)
           /\ returned.status = "failed"

C5_WorkedScenario ==
    /\ scenario = 1 => /\ last.accept /\ last.forced
                       /\ R = 2 /\ accepted_counts["A"] = 1 /\ rejects = 0
    /\ scenario = 2 => /\ ~last.accept
                       /\ R = 2 /\ accepted_counts["A"] = 1 /\ rejects = 1
    /\ scenario = 3 => /\ ~last.accept
                       /\ R = 2 /\ accepted_counts["A"] = 1 /\ rejects = 2
    /\ scenario = 4 => /\ last.accept /\ ~last.forced
                       /\ R = 1 /\ accepted_counts["A"] = 2 /\ rejects = 2

\* the four candidates of the scenario have been decided
C5_Witness == scenario = 4

\* C6: with the required and accepted counts fixed, a candidate that is
\* force-accepted at capacity r1 is force-accepted at every capacity r2 < r1.
\* Checked for every candidate the service delivers, in every state of the
\* counters the session reaches.
C6_ForcedMonotonic ==
    Running(response) =>
        \A r1 \in 0..N : \A r2 \in 0..r1 :
            should_force_accept(Candidate, ExpectedFutureAt(r1)) = "True"
                => should_force_accept(Candidate, ExpectedFutureAt(r2)) = "True"

\* a candidate was force-accepted with more than one slot open, and would
\* not have been with the whole venue open
C6_Witness ==
    /\ pc = "wait" /\ last.forced /\ R >= 1
    /\ Running(response)
    /\ should_force_accept(Candidate, ExpectedFutureAt(R)) = "True"
    /\ should_force_accept(Candidate, ExpectedFutureAt(N)) = "False"

\* C7: the first request carries no decision; every later request carries the
\* decision just taken on the candidate of the preceding response, under that
\* candidate's personIndex, and fetches the next one.  Decisions are reported
\* once each, in arrival order.
C7_DecisionWithNextRequest ==
    /\ [](n_requests = 1 => request = [personIndex |-> 0, accept |-> "absent"])
    /\ [](n_requests >= 1 => n_requests = n_decided + 1)
    /\ [](n_requests >= 2 =>
            /\ request.personIndex = last.personIndex
            /\ request.accept = IF last.accept THEN "true" ELSE "false")
    /\ [][Processed =>
            /\ n_requests' = n_requests + 1
            /\ request'.personIndex = response.nextPerson.personIndex
            /\ request'.accept = (IF R' = R - 1 THEN "true" ELSE "false")
            /\ response.nextPerson.personIndex = n_decided
            /\ inflight = 0 /\ inflight' = 1]_vars
    /\ [][n_requests' # n_requests => (n_requests = 0 \/ Processed)]_vars

\* an accept and a reject have been reported
C7_Witness ==
    /\ n_requests >= 3
    /\ request.accept = "true"
    /\ rejects >= 1

\* C8: a candidate carrying an attribute outside the tracked set is decided
\* without error, as the same candidate without that attribute would be.
\* Stated for sessions whose constraints and statistics name the same
\* attributes, so that the untracked attribute is the only irregularity.
Without(pa, x) == SelectSeq(pa, LAMBDA e : e.attr # x)

C8_UntrackedIgnored ==
    (/\ pc = "loop" /\ loop_guard
     /\ DOMAIN remaining_required = DOMAIN p_a)
        => \A x \in Carried(Candidate) \ DOMAIN p_a :
              /\ ~make_decision(response.nextPerson).raised
              /\ make_decision(response.nextPerson)
                    = make_decision([attributes |-> Without(Candidate, x)])

\* C9: every way run_game ends is followed by a report holding the outcome,
\* the accepted count per attribute and the total reject count.
C9_FinalReport ==
    pc = "done" =>
        \E i \in DOMAIN stdout :
            /\ "accepted_counts" \in DOMAIN stdout[i]
            /\ stdout[i].accepted_counts = accepted_counts
            /\ "rejected" \in DOMAIN stdout[i]
            /\ stdout[i].rejected = rejects
            /\ "status" \in DOMAIN stdout[i]

\* C10: a started session has no requirement on an attribute without a
\* marginal and a counter (start fails on such a constraint).
C10_ConstraintsKnown ==
    pc \in {"started", "wait_first", "loop", "wait"} =>
        /\ DOMAIN remaining_required \subseteq DOMAIN p_a
        /\ DOMAIN remaining_required \subseteq DOMAIN accepted_counts

\* C11: the probability model is built only from marginals strictly between
\* 0 and 1 (and from correlation entries that are all there): with any other
\* statistics start fails.
C11_MarginalsValidated ==
    pc \notin {"new", "start_failed", "start_raised"} =>
        \A a \in DOMAIN p_a : 0 < p_a[a].num /\ p_a[a].num < p_a[a].den

\* the correlations sent for a and b agree
SymmetricAt(a, b) ==
    attribute_statistics.correlations[a][b] = attribute_statistics.correlations[b][a]

\* C12: in the table start builds, P11[a][a] is marginal(a) and, when the
\* correlations supplied for a and b agree, P11[a][b] = P11[b][a].
C12_JointTable ==
    pc = "started" =>
        /\ \A a \in DOMAIN p_a : P11[a][a] = p_a[a]
        /\ \A a \in DOMAIN p_a : \A b \in DOMAIN p_a \ {a} :
              SymmetricAt(a, b) => P11[a][b] = P11[b][a]

\* the attributes with a marginal, a requirement and a counter
Tracked == DOMAIN p_a \cap DOMAIN remaining_required \cap DOMAIN accepted_counts

\* the forced-accept rule on the current counters
ForcedNow(pa) ==
    \E a \in Carried(pa) \cap Tracked : R * p_a[a].num < Need(a) * p_a[a].den

\* the decision on the current counters
AcceptNow(pa) ==
    ForcedNow(pa) \/ (R > 0 /\ \E a \in Carried(pa) \cap Tracked : Need(a) > 0)

\* C13: the admission state changes once per candidate, in the step that
\* decides it and after the decision: the decision on candidate i is computed
\* from the counters left by candidates 1..i-1, the counters already hold
\* candidate i's update while its decision is in flight, nothing changes
\* them between decisions or when the decision raises, and at most one
\* request is in flight.
C13_OneMutationAfterDecision ==
    /\ [](inflight \in {0, 1})
    /\ [](inflight = 1 <=> pc \in {"wait_first", "wait"})
    /\ [](pc = "wait" => /\ (N - R) + rejects = n_decided
                         /\ n_requests = n_decided + 1)
    /\ [][Processed =>
            /\ inflight = 0 /\ inflight' = 1
            /\ response.nextPerson.personIndex = n_decided
            /\ last'.forced <=> ForcedNow(Candidate)
            /\ last'.accept <=> AcceptNow(Candidate)
            /\ last'.accept <=> (R' = R - 1)
            /\ (N - R') + rejects' = (N - R) + rejects + 1]_vars
    /\ [][(/\ pc # "new"
           /\ \/ R' # R
              \/ rejects' # rejects
              \/ accepted_counts' # accepted_counts) => Processed]_vars

\* a candidate was accepted by score where the forced rule, read on the
\* counters after its own update, would have fired
C13_Witness ==
    /\ pc = "wait" /\ inflight = 1
    /\ last.accept /\ ~last.forced
    /\ \E a \in last.carried \cap Tracked :
          R * p_a[a].num < max(0, remaining_required[a] - (accepted_counts[a] - 1)) * p_a[a].den

\* run_game has ended: it returned, or an exception left it
Ended == pc \in {"done", "crashed", "io_raised"}

\* C14: a candidate is passed to make_decision only when the latest response
\* says "running", a slot is open and the reject budget is not used up; so
\* reject_count never exceeds MAX_REJECTS, and nothing is decided or updated
\* once a response was not "running" or a round trip failed, the first
\* response included.
C14_DecideOnlyWhileRunning ==
    /\ [](rejects <= MAX_REJECTS)
    /\ [][(Processed \/ pc' = "crashed")
            => /\ Running(response)
               /\ R > 0
               /\ rejects < MAX_REJECTS]_vars
    /\ [][(n_requests >= 1 /\ inflight = 0 /\ ~Running(response))
            => /\ UNCHANGED <<R, rejects, accepted_counts, n_decided, n_requests>>
               /\ pc' = "done"]_vars
    /\ [][Ended => UNCHANGED <<R, rejects, accepted_counts, n_decided, n_requests>>]_vars

\* the reject budget ended the loop with slots open and the service running
C14_Witness ==
    /\ pc = "done"
    /\ rejects = MAX_REJECTS
    /\ R > 0
    /\ Running(response)
    /\ n_decided >= MAX_REJECTS

\* C15: after start the marginals, the joint table and the required counts
\* are never written; a step in which make_decision raises changes no
\* counter; a reject leaves capacity_remaining and every accepted_count, an
\* accept leaves reject_count and the count of every attribute the candidate
\* does not carry.  The need the decision uses is max(0, required - accepted)
\* with required as the constraints gave it and accepted as counted so far.
C15_ReadOnlyModelAndFrames ==
    /\ [][pc # "new" => UNCHANGED <<p_a, P11, remaining_required, constraints,
                                    attribute_statistics, N>>]_vars
    /\ [][pc' = "crashed" => UNCHANGED <<R, rejects, accepted_counts>>]_vars
    /\ [][(Processed /\ ~last'.accept)
            => UNCHANGED <<R, accepted_counts>>]_vars
    /\ [][(Processed /\ last'.accept)
            => /\ rejects' = rejects
               /\ DOMAIN accepted_counts' = DOMAIN accepted_counts
               /\ \A a \in DOMAIN accepted_counts \ Carried(Candidate) :
                     accepted_counts'[a] = accepted_counts[a]]_vars
    /\ [](pc \notin {"new", "start_failed", "start_raised"} =>
            /\ remaining_required = required_from(constraints, Len(constraints))
            /\ \A a \in Tracked :
                  remaining_req(a) = max(0, required_from(constraints, Len(constraints))[a]
                                            - accepted_carrying[a]))

\* after a reject, a candidate was accepted that does not carry an attribute
\* with a counter, and that counter is still 0
C15_Witness ==
    /\ pc = "wait"
    /\ last.accept
    /\ rejects >= 1
    /\ \E a \in DOMAIN accepted_counts \ last.carried : accepted_counts[a] = 0

\* what the loop guard leaves to be used up
Variant == R + (MAX_REJECTS - rejects)

\* C16: run_game terminates when every round trip returns, even with a
\* service that answers "running" for ever: each decided candidate lowers
\* capacity_remaining + (MAX_REJECTS - reject_count) by one, the guard keeps
\* both terms from going below 0, so at most N + MAX_REJECTS candidates are
\* decided and the run ends.
C16_Terminates ==
    /\ [](Variant >= 0 /\ n_decided + Variant = N + MAX_REJECTS)
    /\ [](n_decided <= N + MAX_REJECTS)
    /\ [][Processed => Variant' = Variant - 1]_vars
    /\ (pc = "started") ~> Ended

\* the service answered "running" to the end and the run ended on its own
\* bounds, with both the venue and the reject budget used
C16_Witness ==
    /\ pc = "done"
    /\ Running(response)
    /\ n_decided >= 2
    /\ N - R >= 1
    /\ rejects >= 1

\* every attribute the candidate lists has a marginal, a requirement and a
\* counter
AllTracked(pa) == \A i \in DOMAIN pa : pa[i].attr \in Tracked

\* C17: for a candidate whose attributes are all tracked, make_decision
\* returns accept exactly when the candidate carries an attribute with
\* positive need; with capacity left a forced candidate has a positive score
\* too, and at capacity 0 the accept comes from the forced rule alone.
C17_ForcedRuleRedundant ==
    (pc = "loop" /\ Running(response) /\ AllTracked(Candidate))
        => LET d == make_decision(response.nextPerson)
               needed == \E a \in Carried(Candidate) : Need(a) > 0
           IN /\ ~d.raised
              /\ d.accept <=> needed
              /\ (R > 0 /\ d.forced) => needed
              /\ (R = 0 /\ d.accept) => d.forced

\* C18: the accepted (N - capacity_remaining) and the rejected add up to the
\* candidates decided; every accepted_count lies between 0 and the number
\* accepted and equals the number of accepted candidates that carried the
\* attribute; capacity_remaining never grows, reject_count and the
\* accepted_counts never shrink.
C18_CounterInvariants ==
    /\ []((N - R) + rejects = n_decided)
    /\ [](\A a \in DOMAIN accepted_counts :
            /\ 0 <= accepted_counts[a]
            /\ accepted_counts[a] <= N - R
            /\ accepted_counts[a] = accepted_carrying[a])
    /\ [][/\ R' <= R
          /\ rejects' >= rejects
          /\ \A a \in DOMAIN accepted_counts :
                /\ a \in DOMAIN accepted_counts'
                /\ accepted_counts'[a] >= accepted_counts[a]]_vars

\* accepts and a reject have happened, and some attribute was carried by
\* some accepted candidates and not by others
C18_Witness ==
    /\ pc = "wait"
    /\ rejects >= 1
    /\ N - R >= 2
    /\ \E a \in DOMAIN accepted_counts :
          0 < accepted_counts[a] /\ accepted_counts[a] < N - R

\* a session in run_game in which every constrained attribute has reached
\* its required count and a slot is open
NeedsMet ==
    /\ pc \in {"started", "wait_first", "loop", "wait"}
    /\ R > 0
    /\ \A a \in DOMAIN remaining_required :
          /\ a \in DOMAIN accepted_counts
          /\ accepted_counts[a] >= remaining_required[a]

\* C19: once every constrained attribute has need 0 with a slot open, every
\* candidate decided from then on is rejected and capacity_remaining stays
\* as it is; run_game then ends only by reject_count reaching MAX_REJECTS,
\* by a status other than "running", or by an I/O failure.
C19_RejectsOnceSatisfied ==
    /\ [][NeedsMet => /\ R' = R
                      /\ Processed => ~last'.accept]_vars
    /\ [][(NeedsMet /\ Ended')
            => \/ rejects' = MAX_REJECTS
               \/ ~Running(response')
               \/ pc' = "io_raised"]_vars

==============================================================================
